---- MODULE Spec2Model ----
(***************************************************************************)
(* Model of ChainHelper (src/src/helpers/chain.ts): the range-partitioned  *)
(* table scan getTableAll, the action-log scans getActions and             *)
(* getAllActionsBatch, the cursor scans checkTableMore and checkTableRange, *)
(* validateSign, waitTx and getTableByScope; and of TranscalPayload         *)
(* (src/doc/src_utils_transcalPayload.js.html).                             *)
(*                                                                         *)
(* A row is identified by its primary key, a log entry by its              *)
(* account_action_seq.  Every callback of the JavaScript event loop (one   *)
(* promise continuation, run to completion) is one action.                 *)
(***************************************************************************)
EXTENDS Integers, Sequences, FiniteSets, Bags, TLC

\* ------------------------------------------------------------------ bounds
\* keys of the table are 0..MaxKey
MaxKey == 3
\* the node returns at most 1..MaxPage rows in one page
MaxPage == 2
\* at most MaxHints hint boundaries are passed to getTableAll
MaxHints == 1
\* at most MaxFail sub-queries of the table scans are rejected
MaxFail == 1

\* the action log holds at most MaxLog entries
MaxLog == 5
\* getAllActionsBatch is called with startPos in 0..MaxStart
MaxStart == 1
\* ... with count (the page size) in 1..MaxCount
MaxCount == 3
\* ... and with concurrent in 1..MaxConc
MaxConc == 2
\* getActions is called directly with offset in 0..MaxOffset
MaxOffset == 3
\* at most MaxCalls direct calls of getActions, one after the other
MaxCalls == 1
\* at most MaxFaults remote calls of the log scans time out or answer malformed
MaxFaults == 4

\* largest positive `limit` passed to checkTableMore / `length` to checkTableRange
MaxLimit == 5
\* queries one call of checkTableMore may chain before the model stops following
MaxDepth == 4
\* calls of checkTableMore / checkTableRange made one after the other
MaxRuns == 2
\* smallest key of the twenty-row table is at most this
MaxFirstKey == 3
\* validateSign is passed at most MaxPlugins sign plugins
MaxPlugins == 1
\* waitTx is called with maxRound in 0..MaxRound
MaxRound == 3
\* the func of a TranscalPayload has at most MaxFuncLen characters
MaxFuncLen == 1
\* ... each of its arguments at most MaxArgLen
MaxArgLen == 1
\* ... and it has at most MaxArgs arguments
MaxArgs == 2
\* the table of getTableByScope has at most MaxScopes scopes
MaxScopes == 3
\* pages of one getTableByScope call the model follows
MaxScopePages == 4

\* the key space 0..2^64-1 of line 501, scaled to 0..KeyTop
KeyTop == MaxKey + 1
Calls == 1 .. 2
NoArgs == [lowerNum |-> 0, upperNum |-> 0, hint |-> <<>>,
           upperIsString |-> FALSE]

VARIABLES
    table,          \* the keys of the rows of the (static) remote table
    maxPageSize,    \* rows the node returns before it reports `more`
    upperInclusive, \* whether the node's upper_bound includes the bound itself
    args,           \* per call: the arguments lowerNum, upperNum, hint
    phase,          \* per call: "unused", "idle", "polling", "returned"
    reqs,           \* per call: the sub-queries issued, in order of issue
    pool,           \* per call: the array `pool` of line 504 (sub-query ids)
    ret,            \* per call: the array `ret` of line 503
    result,         \* per call: the array the call resolved with
    rejected,       \* per call: the sub-queries whose promise ended rejected
    fails           \* sub-queries rejected so far (bounded by MaxFail)

tvars == <<table, maxPageSize, upperInclusive, args, phase, reqs, pool, ret,
           result, rejected, fails>>

VARIABLES
    logLen,         \* the log holds the entries with account_action_seq 0..logLen-1
    shortReads,     \* whether the node may answer with less than what it has
    bArgs,          \* the arguments of getAllActionsBatch
    bPhase,         \* "off", "idle", "waiting" (in Promise.all), "done"
    bI,             \* the loop counter i of line 313 at the last dispatch
    win,            \* the getActions activations: of the batch, or direct calls
    delivered,      \* the pages passed to cbReceive, in order
    bRet,           \* what getAllActionsBatch resolved with ("none" before)
    results,        \* the array `results` of line 318 of the last settled batch
    sent,           \* the indices of `results` passed to cbReceive
    answered,       \* the bag of the get_actions requests the node answered
    faults,         \* remote calls failed so far (bounded by MaxFaults)
    lastFault       \* how the last of them failed ("none" before the first)

avars == <<logLen, shortReads, bArgs, bPhase, bI, win, delivered, bRet, results,
           sent, answered, faults, lastFault>>

VARIABLES
    cArgs,          \* what the caller of checkTableMore / checkTableRange passes
    pkPresent,      \* whether the rows carry the field named by `primaryKey`
    runs            \* the calls made so far, each with its chain of queries

mvars == <<cArgs, pkPresent, runs>>

VARIABLES
    sIn,            \* validateSign: the account's permissions and the arguments
    sSt,            \* "off", "idle", "account", "validating", "returned",
                    \* "threw" (a TypeError) or "rejected" (the remote call)
    sAt,            \* the loop counters <<iPlg, i>> of the validator awaited
    sRet            \* what validateSign resolved with

svars == <<sIn, sSt, sAt, sRet>>

VARIABLES
    wIn,            \* waitTx: the argument maxRound
    wSt,            \* "off", "idle", "asking", "sleeping", "returned"
    wRound,         \* the parameter `round` of the checkTx activation
    wLog,           \* how the getTransaction calls made so far ended, in order
    wRet            \* what waitTx resolved with: "none", "tx" or "null"

wvars == <<wIn, wSt, wRound, wLog, wRet>>

VARIABLES
    gIn,            \* getTableByScope: the scopes the table has and the
                    \* arguments lower_bound and limit
    gSt,            \* "off", "idle", "asking", "returned", "threw"
    gRet            \* the array `ret` of the pages received so far

gvars == <<gIn, gSt, gRet>>

VARIABLES
    pIn,            \* TranscalPayload: the fields func and args of a payload
    pSt,            \* "off", "idle", "memo", "parsed"
    pMemo,          \* what memo() returned
    pOut            \* what TranscalPayload.parse(memo) returned, or the error

pvars == <<pIn, pSt, pMemo, pOut>>

\* the state of the helpers that scan nothing
ovars == <<wvars, gvars, pvars>>

vars == <<tvars, avars, mvars, svars, ovars>>

\* ------------------------------------------------------------ the remote node
\* The keys a get_table_rows query with bounds l, u selects.  The node has
\* shipped with both conventions for upper_bound (exclusive, later inclusive);
\* the helper fixes neither, so the convention is an unknown of the environment.
InBounds(l, u) ==
    {k \in table : l <= k /\ (k < u \/ (upperInclusive /\ k = u))}

\* the n smallest elements of S, ascending
RECURSIVE FirstN(_, _)
FirstN(S, n) ==
    IF n = 0 \/ S = {} THEN <<>>
    ELSE LET m == CHOOSE x \in S : \A y \in S : x <= y
         IN  <<m>> \o FirstN(S \ {m}, n - 1)

\* The reply to getTableRows({lower_bound: l, upper_bound: u, limit: -1}):
\* one page of at most maxPageSize rows, and whether rows were left out.
GetTableRows(l, u) ==
    [rows |-> FirstN(InBounds(l, u), maxPageSize),
     more |-> Cardinality(InBounds(l, u)) > maxPageSize]

\* ------------------------------------------------------------ JavaScript arrays
Range(s) == {s[i] : i \in 1 .. Len(s)}

\* Array.prototype.findIndex(v => v === x): 0-based, -1 when absent
FindIndex(s, x) ==
    IF \E i \in 1 .. Len(s) : s[i] = x
    THEN (CHOOSE i \in 1 .. Len(s) : s[i] = x /\ \A j \in 1 .. i - 1 : s[j] # x) - 1
    ELSE -1

\* Array.prototype.splice(start, 1): a negative start counts from the end
Splice1(s, start) ==
    LET n == Len(s)
        from == IF start < 0 THEN (IF n + start < 0 THEN 0 ELSE n + start)
                ELSE (IF start > n THEN n ELSE start)
    IN  [i \in 1 .. (IF from < n THEN n - 1 ELSE n) |->
            IF i <= from THEN s[i] ELSE s[i + 1]]

\* --------------------------------------------------------------- getTableAll
\* lines 500-501: the bounds the scan works with
LowerOf(lowerNum) == IF lowerNum # 0 THEN lowerNum ELSE 0
UpperOf(upperNum) == IF upperNum # 0 /\ upperNum # -1 THEN upperNum ELSE KeyTop

\* line 501 for an upperNum passed as a string of digits with or without a
\* sign: the string is truthy and is not the number -1, new BigNumber(upperNum)
\* is its value
UpperOfString(upperNum) == upperNum

\* faulty variant of Mid: the half is rounded down
MidFloor(l, u) == ((u - l) \div 2) + l

\* line 528: _u.minus(_l).dividedBy(2).decimalPlaces(0).plus(_l); decimalPlaces
\* rounds with BigNumber's ROUNDING_MODE, ROUND_HALF_UP by default
Mid(l, u) == ((u - l + 1) \div 2) + l

\* lines 505-538, the synchronous part of Require(_l, _u) acting on the pair
\* st = [reqs, pool]: an empty range issues nothing, any other issues one
\* sub-query and pushes its promise
Require(st, l, u) ==
    IF l >= u THEN st
    ELSE [reqs |-> Append(st.reqs, [l |-> l, u |-> u, st |-> "pending"]),
          pool |-> Append(st.pool, Len(st.reqs) + 1)]

\* lines 539-546: the sub-ranges seeded from the hints, left to right
RECURSIVE Seed(_, _, _)
Seed(st, l, bounds) ==
    IF bounds = <<>> THEN st
    ELSE Seed(Require(st, l, Head(bounds)), Head(bounds), Tail(bounds))

\* lines 500-547: the body of a call up to its first await
Enter(c) ==
    /\ phase[c] = "idle"
    /\ LET lower == LowerOf(args[c].lowerNum)
           upper == IF args[c].upperIsString
                    THEN UpperOfString(args[c].upperNum)
                    ELSE UpperOf(args[c].upperNum)
           st0   == [reqs |-> <<>>, pool |-> <<>>]
           st1   == IF Len(args[c].hint) <= 0
                    THEN Require(st0, lower, upper)
                    ELSE Seed(st0, lower, args[c].hint \o <<upper>>)
       IN  /\ reqs' = [reqs EXCEPT ![c] = st1.reqs]
           /\ pool' = [pool EXCEPT ![c] = st1.pool]
    /\ ret' = [ret EXCEPT ![c] = <<>>]
    /\ phase' = [phase EXCEPT ![c] = "polling"]
    /\ UNCHANGED <<table, maxPageSize, upperInclusive, args, result, rejected, fails,
                   avars, mvars, svars, ovars>>

\* lines 494-547: the call up to its first await; the caller awaits one call
\* before it makes the next
GetTableAll(c) ==
    /\ \A d \in Calls : d < c => phase[d] \in {"unused", "returned"}
    /\ Enter(c)

\* lines 494-547: the same for a caller that does not await the call before
GetTableAllMeanwhile(c) == Enter(c)

\* faulty variant of RemoveOwn: the promise stays in the pool
RemoveNothing(p, id) == p

\* line 517-518: the fulfilled sub-query takes its own promise out of the pool
RemoveOwn(p, id) == Splice1(p, FindIndex(p, id))

\* lines 516-531: sub-query id of call c is fulfilled with the node's reply
Then(c, id) ==
    /\ id \in 1 .. Len(reqs[c])
    /\ reqs[c][id].st = "pending"
    /\ LET l    == reqs[c][id].l
           u    == reqs[c][id].u
           res  == GetTableRows(l, u)
           st0  == [reqs |-> [reqs[c] EXCEPT ![id].st = "done"],
                    pool |-> RemoveOwn(pool[c], id)]
           mid  == Mid(l, u)
           st1  == IF res.more
                   THEN Require(Require(st0, l, mid - 1), mid, u)
                   ELSE st0
       IN  /\ reqs' = [reqs EXCEPT ![c] = st1.reqs]
           /\ pool' = [pool EXCEPT ![c] = st1.pool]
           /\ ret' = [ret EXCEPT ![c] = IF res.more THEN @ ELSE @ \o res.rows]
    /\ UNCHANGED <<table, maxPageSize, upperInclusive, args, phase, result,
                   rejected, fails, avars, mvars, svars, ovars>>

\* line 533-534: pool.find yields the promise itself, not an index, and
\* splice(<object>, 1) starts at 0
RemoveOnError(p, id) == Splice1(p, 0)

\* lines 532-536: sub-query id of call c is rejected; the handler rethrows into
\* a promise nobody awaits
Catch(c, id) ==
    /\ id \in 1 .. Len(reqs[c])
    /\ reqs[c][id].st = "pending"
    /\ fails < MaxFail
    /\ fails' = fails + 1
    /\ reqs' = [reqs EXCEPT ![c][id].st = "failed"]
    /\ pool' = [pool EXCEPT ![c] = RemoveOnError(pool[c], id)]
    /\ rejected' = [rejected EXCEPT ![c] = @ \cup {id}]
    /\ UNCHANGED <<table, maxPageSize, upperInclusive, args, phase, ret, result,
                   avars, mvars, svars, ovars>>

\* faulty variant of Drained: the polling test is off by one
DrainedOffByOne(p) == Len(p) <= 1

\* line 548: the test of the polling loop
Drained(p) == Len(p) <= 0

\* faulty variant of Local: one array of the helper, shared by its calls
LocalOfHelper(v, c) == v[1]

\* lines 503-504: `ret` and `pool` are locals of the call, each call has its own
Local(v, c) == v[c]

\* lines 548-553: the poll that finds the pool empty; the call resolves with ret
Return(c) ==
    /\ phase[c] = "polling"
    /\ Drained(Local(pool, c))
    /\ phase' = [phase EXCEPT ![c] = "returned"]
    /\ result' = [result EXCEPT ![c] = Local(ret, c)]
    /\ UNCHANGED <<table, maxPageSize, upperInclusive, args, reqs, pool, ret,
                   rejected, fails, avars, mvars, svars, ovars>>

\* ---------------------------------------------------------------- getActions
\* The reply to getActions({pos, offset}) of a log with entries 0..logLen-1:
\* the entries pos, pos+1, ... the node holds, up to pos+offset; a node that
\* reads short answers with a non-empty prefix of them.
GetActionsReplies(pos, offset) ==
    LET last == IF pos + offset < logLen - 1 THEN pos + offset ELSE logLen - 1
        n    == IF last < pos THEN 0 ELSE last - pos + 1
    IN  IF n = 0 THEN {<<>>}
        ELSE {[i \in 1 .. k |-> pos + i - 1] :
                 k \in (IF shortReads THEN 1 .. n ELSE {n})}

\* faulty variant of NewWindow: offset taken for the number of entries
NewWindowOfCount(startPos, offset, viaReq) ==
    [start |-> startPos, pos |-> startPos, endPos |-> startPos + offset - 1,
     actions |-> <<>>, st |-> "running", viaReq |-> viaReq]

\* lines 246-249: a getActions activation; viaReq tells the activations that
\* the closure req of getAllActionsBatch started from the direct calls
NewWindow(startPos, offset, viaReq) ==
    [start |-> startPos, pos |-> startPos, endPos |-> startPos + offset,
     actions |-> <<>>, st |-> "running", viaReq |-> viaReq]

\* faulty variant of MaxActionInd: the sequence number of the first row
MaxActionIndOfFirst(acts, pos) == IF Len(acts) = 0 THEN pos - 1 ELSE acts[1]

\* faulty variant of MaxActionInd: an empty reply counts as reaching pos
MaxActionIndOfEmpty(acts, pos) == IF Len(acts) = 0 THEN pos ELSE acts[Len(acts)]

\* line 268
MaxActionInd(acts, pos) == IF Len(acts) = 0 THEN pos - 1 ELSE acts[Len(acts)]

\* faulty variant of LoopTurn: the next request starts at the last row
LoopTurnFromLast(w, acts) ==
    LET maxActionInd == MaxActionInd(acts, w.pos)
    IN  IF maxActionInd < w.pos THEN [w EXCEPT !.st = "returned"]
        ELSE IF maxActionInd >= w.endPos
             THEN [w EXCEPT !.actions = @ \o acts, !.st = "returned"]
             ELSE [w EXCEPT !.actions = @ \o acts, !.pos = maxActionInd]

\* lines 264-279: one turn of the loop on the reply acts
LoopTurn(w, acts) ==
    LET maxActionInd == MaxActionInd(acts, w.pos)
    IN  IF maxActionInd < w.pos THEN [w EXCEPT !.st = "returned"]
        ELSE IF maxActionInd >= w.endPos
             THEN [w EXCEPT !.actions = @ \o acts, !.st = "returned"]
             ELSE [w EXCEPT !.actions = @ \o acts, !.pos = maxActionInd + 1]

\* a direct call getActions(account, startPos, offset)
CallGetActions(startPos, offset) ==
    /\ bPhase = "off"
    /\ Len(win) < MaxCalls
    /\ \A j \in 1 .. Len(win) : win[j].st # "running"
    /\ win' = Append(win, NewWindow(startPos, offset, FALSE))
    /\ UNCHANGED <<tvars, mvars, svars, logLen, shortReads, bArgs, bPhase, bI, delivered, bRet,
                   results, sent, answered, faults, lastFault, ovars>>

\* lines 245-249: three direct calls in a row, each made when the one before
\* has ended: getActions(p, c), getActions(p + c + 1, c2) and
\* getActions(p, c + c2 + 1)
CallAdjacent ==
    /\ bPhase = "off"
    /\ \A j \in 1 .. Len(win) : win[j].st # "running"
    /\ \/ /\ Len(win) = 0
          /\ \E p \in 0 .. MaxStart, c \in 0 .. MaxOffset :
                win' = <<NewWindow(p, c, FALSE)>>
       \/ /\ Len(win) = 1
          /\ \E c2 \in 0 .. MaxOffset :
                win' = Append(win, NewWindow(win[1].endPos + 1, c2, FALSE))
       \/ /\ Len(win) = 2
          /\ win' = Append(win, NewWindow(win[1].start,
                                          win[2].endPos - win[1].start, FALSE))
    /\ UNCHANGED <<tvars, mvars, svars, logLen, shortReads, bArgs, bPhase, bI, delivered, bRet,
                   results, sent, answered, faults, lastFault, ovars>>

\* lines 253-279: the node answers the request of activation j
Reply(j) ==
    /\ j \in 1 .. Len(win)
    /\ win[j].st = "running"
    /\ \E acts \in GetActionsReplies(win[j].pos, win[j].endPos - win[j].pos) :
          win' = [win EXCEPT ![j] = LoopTurn(win[j], acts)]
    /\ answered' = answered (+) SetToBag({[pos |-> win[j].pos,
                                           offset |-> win[j].endPos - win[j].pos]})
    /\ UNCHANGED <<tvars, mvars, svars, logLen, shortReads, bArgs, bPhase, bI, delivered, bRet,
                   results, sent, faults, lastFault, ovars>>

\* faulty variant of CatchContinue: the failure ends the activation
CatchRethrow(w) == [w EXCEPT !.st = "threw"]

\* lines 257-260: the catch around the awaited request logs and takes the next
\* turn of the loop; pos, endPos and actions are as they were
CatchContinue(w) == w

\* lines 253-260: the request of activation j is not answered within
\* fetchTimeout; timeoutPromise rejects
Timeout(j) ==
    /\ j \in 1 .. Len(win)
    /\ win[j].st = "running"
    /\ faults < MaxFaults
    /\ faults' = faults + 1
    /\ lastFault' = "timeout"
    /\ win' = [win EXCEPT ![j] = CatchContinue(win[j])]
    /\ UNCHANGED <<tvars, mvars, svars, logLen, shortReads, bArgs, bPhase, bI, delivered,
                   bRet, results, sent, answered, ovars>>

\* lines 253-260: the remote call of activation j rejects before the timeout
\* (the node answers with an error); the same catch takes it
Reject(j) ==
    /\ j \in 1 .. Len(win)
    /\ win[j].st = "running"
    /\ faults < MaxFaults
    /\ faults' = faults + 1
    /\ lastFault' = "rejected"
    /\ win' = [win EXCEPT ![j] = CatchContinue(win[j])]
    /\ UNCHANGED <<tvars, mvars, svars, logLen, shortReads, bArgs, bPhase, bI, delivered,
                   bRet, results, sent, answered, ovars>>

\* faulty variant of Thrown: req gives up and resolves with the rows it has
ThrownGivenUp(w) == [w EXCEPT !.st = "returned"]

\* faulty variant of Thrown: req goes on from where the activation failed
ThrownResumed(w) ==
    IF w.viaReq THEN NewWindow(w.pos, w.endPos - w.pos, TRUE)
    ELSE [w EXCEPT !.st = "threw"]

\* lines 261-263 and 298-307: getActions throws; the closure req logs the error
\* and calls getActions again with the pos and offset it was given, a direct
\* call ends with the error
Thrown(w) ==
    IF w.viaReq THEN NewWindow(w.start, w.endPos - w.start, TRUE)
    ELSE [w EXCEPT !.st = "threw"]

\* lines 261-263: the reply to activation j has no `actions`
Malformed(j) ==
    /\ j \in 1 .. Len(win)
    /\ win[j].st = "running"
    /\ faults < MaxFaults
    /\ faults' = faults + 1
    /\ lastFault' = "malformed"
    /\ win' = [win EXCEPT ![j] = Thrown(win[j])]
    /\ UNCHANGED <<tvars, mvars, svars, logLen, shortReads, bArgs, bPhase, bI, delivered, bRet,
                   results, sent, answered, ovars>>

\* -------------------------------------------------------- getAllActionsBatch
\* lines 313-315: the start positions pushed to `ranges` between the dispatch at
\* loop counter i0 (-1 before the first) and the next dispatch, which happens at
\* the next i with i % concurrent = 0
NextDispatchAt(i0, concurrent) ==
    CHOOSE i \in i0 + 1 .. i0 + concurrent : i % concurrent = 0

RangesFrom(i0, a) ==
    LET i1 == NextDispatchAt(i0, a.concurrent)
    IN  [n \in 1 .. i1 - i0 |-> a.startPos + (i0 + n) * a.count]

\* faulty variant of Dispatch: count taken for the offset
DispatchOfCount(ranges, a) ==
    [n \in 1 .. Len(ranges) |-> NewWindow(ranges[n], a.count, TRUE)]

\* line 318-319: ranges.map(req)
Dispatch(ranges, a) ==
    [n \in 1 .. Len(ranges) |-> NewWindow(ranges[n], a.count - 1, TRUE)]

\* lines 293-320: the call up to its first await
GetAllActionsBatch ==
    /\ bPhase = "idle"
    /\ IF ~bArgs.cbReceive
       THEN /\ bPhase' = "done"
            /\ bRet' = "false"
            /\ UNCHANGED <<bI, win>>
       ELSE /\ bPhase' = "waiting"
            /\ bI' = NextDispatchAt(-1, bArgs.concurrent)
            /\ win' = Dispatch(RangesFrom(-1, bArgs), bArgs)
            /\ UNCHANGED bRet
    /\ UNCHANGED <<tvars, mvars, svars, logLen, shortReads, bArgs, delivered, results, sent,
                   answered, faults, lastFault, ovars>>

\* lines 321 and 327: the indices of the non-empty results, in order
RECURSIVE NonEmptyIdx(_, _)
NonEmptyIdx(res, n) ==
    IF n > Len(res) THEN <<>>
    ELSE (IF Len(res[n]) > 0 THEN <<n>> ELSE <<>>) \o NonEmptyIdx(res, n + 1)

\* faulty variant of StillFull: the length of the page is not looked at
StillFullWhateverLength(full, acts, count) == full

\* line 332: the accumulator of the reduce after a page
StillFull(full, acts, count) == full /\ Len(acts) >= count

\* lines 326-333: the reduce over the non-empty results; yields the indices
\* passed to cbReceive and the final accumulator allFull
RECURSIVE Walk(_, _, _, _, _)
Walk(res, idx, full, out, count) ==
    IF idx = <<>> THEN [sent |-> out, allFull |-> full]
    ELSE Walk(res, Tail(idx), StillFull(full, res[Head(idx)], count),
              IF full THEN Append(out, Head(idx)) ELSE out, count)

\* faulty variant of AllSettled: the first window to return resolves the wait
AnySettled(w) == \E j \in 1 .. Len(w) : w[j].st = "returned"

\* lines 318-320: Promise.all over the windows of the batch resolves when
\* each of them has resolved
AllSettled(w) == \A j \in 1 .. Len(w) : w[j].st = "returned"

\* lines 318-340: Promise.all resolves; the pages are passed on and the scan
\* ends or dispatches the next batch, in one turn of the event loop
BatchSettled ==
    /\ bPhase = "waiting"
    /\ AllSettled(win)
    /\ LET res  == [j \in 1 .. Len(win) |-> win[j].actions]
           idx  == NonEmptyIdx(res, 1)
           walk == Walk(res, idx, TRUE, <<>>, bArgs.count)
       IN  /\ results' = res
           /\ IF Len(idx) <= 0
              THEN /\ bPhase' = "done"
                   /\ bRet' = "true"
                   /\ sent' = <<>>
                   /\ UNCHANGED <<delivered, bI, win>>
              ELSE /\ sent' = walk.sent
                   /\ delivered' = delivered \o
                         [n \in 1 .. Len(walk.sent) |->
                             [pos |-> win[walk.sent[n]].start,
                              rows |-> res[walk.sent[n]]]]
                   /\ IF ~walk.allFull
                      THEN /\ bPhase' = "done"
                           /\ bRet' = "true"
                           /\ UNCHANGED <<bI, win>>
                      ELSE /\ bI' = NextDispatchAt(bI, bArgs.concurrent)
                           /\ win' = Dispatch(RangesFrom(bI, bArgs), bArgs)
                           /\ UNCHANGED <<bPhase, bRet>>
    /\ UNCHANGED <<tvars, mvars, svars, logLen, shortReads, bArgs, answered, faults, lastFault, ovars>>

\* the account acts meanwhile: the log grows by one entry
Grow ==
    /\ logLen < MaxLog
    /\ logLen' = logLen + 1
    /\ UNCHANGED <<tvars, mvars, svars, shortReads, bArgs, bPhase, bI, win, delivered, bRet,
                   results, sent, answered, faults, lastFault, ovars>>

\* ------------------------------------------- checkTableMore, checkTableRange
\* what row[primaryKey] reads when the row has no such field (undefined)
Absent == -1

NoQuery == [fn |-> "none", limit |-> 0, lower |-> 0, upper |-> 0]

\* The keys a limited query selects; upper_bound -1 is the node's "no bound",
\* and a lower_bound that is undefined is left out of the request
InRange(l, u) == IF u = -1 THEN {k \in table : l <= k} ELSE InBounds(l, u)

\* The reply to getTableRows({limit, lower_bound: l, upper_bound: u}): the first
\* rows of the range, as many as `limit` and the node's page allow (`limit` is
\* unsigned at the node: a negative one is no limit), and whether rows were
\* left out
GetTableRowsLimit(l, u, limit) ==
    LET cap  == IF limit < 0 \/ limit > maxPageSize THEN maxPageSize ELSE limit
        rows == FirstN(InRange(l, u), cap)
    IN  [rows |-> rows, more |-> Cardinality(InRange(l, u)) > Len(rows)]

\* lines 617-626 and 577-586: a query that was sent and is not answered yet
Query(limit, lower, upper) ==
    [limit |-> limit, lower |-> lower, upper |-> upper,
     got |-> FALSE, rows |-> <<>>, more |-> FALSE]

\* lines 630-631: ret[i][primaryKey] of the row with key k
PkOf(k) == IF pkPresent THEN k ELSE Absent

\* line 632: !from
Falsy(v) == v = Absent \/ v = 0

\* faulty variant of KeyMissing: the fields are compared with 0 only
KeyMissingOfZero(from, to) == from = 0 \/ to = 0

\* line 632
KeyMissing(from, to) == Falsy(from) \/ Falsy(to)

\* line 629 (and 588): the page was cut short of `limit`
Truncated(f) == f.more /\ (f.limit <= 0 \/ Len(f.rows) < f.limit)

\* faulty variant of PageRows: the rows are added to those of the call before
PageRowsKept(reply) ==
    (IF Len(runs) > 1 THEN runs[Len(runs) - 1].rows ELSE <<>>) \o reply.rows

\* line 627 (and 587): result && result.rows ? result.rows : []
PageRows(reply) == reply.rows

\* faulty variant of Continuation: the repeated cursor row is not allowed for
ContinuationOfRest(f) ==
    Query(f.limit - Len(f.rows), PkOf(f.rows[Len(f.rows)]), f.upper)

\* line 638: the query of the recursive call
Continuation(f) ==
    Query(f.limit - Len(f.rows) + 1, PkOf(f.rows[Len(f.rows)]), f.upper)

\* faulty variant of SpliceFrom1: the cursor row is kept
SpliceFrom0(s) == s

\* line 639: partResult.splice(1), the rows from index 1 on
SpliceFrom1(s) == IF s = <<>> THEN <<>> ELSE Tail(s)

\* lines 639 and 642: what the activation of query i resolves with once the
\* last query of the chain was answered without need of another
RECURSIVE Resolved(_, _)
Resolved(frames, i) ==
    IF i >= Len(frames) THEN frames[i].rows
    ELSE frames[i].rows \o SpliceFrom1(Resolved(frames, i + 1))

Ended(r) == r.st \in {"returned", "threw"}

\* lines 607-626: a call of checkTableMore up to its await
CheckTableMore ==
    /\ cArgs.fn = "checkTableMore"
    /\ Len(runs) < MaxRuns
    /\ \A n \in 1 .. Len(runs) : Ended(runs[n])
    /\ runs' = Append(runs,
                  [fn |-> "checkTableMore", st |-> "running", rows |-> <<>>,
                   frames |-> <<Query(cArgs.limit, cArgs.lower, cArgs.upper)>>])
    /\ UNCHANGED <<tvars, avars, svars, cArgs, pkPresent, ovars>>

\* faulty variant of RangeError: a length of 0 is refused as well
RangeErrorOfZero(length) == length <= 0

\* line 663: the test that guards the range error
RangeError(length) == length < 0

\* lines 656-675 and 568-586: a call of checkTableRange(from, length) up to
\* the await in checkTable; cArgs.lower is `from`, cArgs.limit is `length`
CheckTableRange ==
    /\ cArgs.fn = "checkTableRange"
    /\ Len(runs) < MaxRuns
    /\ \A n \in 1 .. Len(runs) : Ended(runs[n])
    /\ runs' = Append(runs,
                  IF RangeError(cArgs.limit)
                  THEN [fn |-> "checkTable", st |-> "threw", rows |-> <<>>,
                        frames |-> <<>>]
                  ELSE [fn |-> "checkTable", st |-> "running", rows |-> <<>>,
                        frames |-> <<Query(cArgs.limit, cArgs.lower,
                                           cArgs.lower + cArgs.limit)>>])
    /\ UNCHANGED <<tvars, avars, svars, cArgs, pkPresent, ovars>>

\* lines 627-642 and 587-591: the node answers the last query of the running
\* call.  checkTable returns the page (a cut page is only logged).
\* checkTableMore returns when the page is not cut, fails on a cut page
\* without rows (ret[0] is undefined), waits for getAbi when a key is missing,
\* and otherwise sends the query of the recursive call.
TableReply ==
    /\ runs # <<>>
    /\ LET n     == Len(runs)
           r     == runs[n]
           d     == Len(r.frames)
           reply == GetTableRowsLimit(r.frames[d].lower, r.frames[d].upper,
                                      r.frames[d].limit)
           f     == [r.frames[d] EXCEPT !.got = TRUE, !.rows = PageRows(reply),
                                        !.more = reply.more]
           fs    == [r.frames EXCEPT ![d] = f]
       IN  /\ r.st = "running"
           /\ IF r.fn = "checkTable" \/ ~Truncated(f)
              THEN runs' = [runs EXCEPT ![n] =
                              [@ EXCEPT !.frames = fs, !.st = "returned",
                                        !.rows = Resolved(fs, 1)]]
              ELSE IF f.rows = <<>>
              THEN runs' = [runs EXCEPT ![n] =
                              [@ EXCEPT !.frames = fs, !.st = "threw"]]
              ELSE IF KeyMissing(PkOf(f.rows[1]), PkOf(f.rows[Len(f.rows)]))
              THEN runs' = [runs EXCEPT ![n] =
                              [@ EXCEPT !.frames = fs, !.st = "abi"]]
              ELSE /\ d < MaxDepth
                   /\ runs' = [runs EXCEPT ![n] =
                        [@ EXCEPT !.frames = Append(fs, Continuation(f))]]
    /\ UNCHANGED <<tvars, avars, svars, cArgs, pkPresent, ovars>>

\* lines 633-635: getAbi settles; the error is thrown through every pending
\* activation of the chain
GetAbiSettled ==
    /\ runs # <<>>
    /\ runs[Len(runs)].st = "abi"
    /\ runs' = [runs EXCEPT ![Len(runs)] = [@ EXCEPT !.st = "threw"]]
    /\ UNCHANGED <<tvars, avars, svars, cArgs, pkPresent, ovars>>

\* lines 617 and 577: the remote call rejects; nothing catches it
QueryFails ==
    /\ runs # <<>>
    /\ runs[Len(runs)].st = "running"
    /\ runs' = [runs EXCEPT ![Len(runs)] = [@ EXCEPT !.st = "threw"]]
    /\ UNCHANGED <<tvars, avars, svars, cArgs, pkPresent, ovars>>

\* --------------------------------------------------------------- validateSign
Keys == {"K1", "K2"}
PermNames == {"active", "owner"}
\* the "actor@permission" strings of line 187
Pairs == {"a@active", "b@active"}

\* the arrays without repetition over S, of length 0..2
Arrays(S) ==
    {q \in UNION {[1 .. n -> S] : n \in 0 .. 2} :
        \A i, j \in 1 .. Len(q) : i # j => q[i] # q[j]}

\* an entry of `permissions`: its name and its required_auth
Permission == [perm_name : PermNames, keys : SUBSET Keys, accounts : Arrays(Pairs)]

\* a validatorProvider: per "actor@permission" no validator, or one that
\* resolves truthy ("yes") or falsy ("no")
Providers == [Pairs -> {"none", "yes", "no"}]

\* what permissions.find yields when no entry matches (undefined)
NoPerm == [perm_name |-> "undefined", keys |-> {}, accounts |-> <<>>]

NoSign == [present |-> FALSE, list |-> <<>>, authority |-> "active",
           recoverKey |-> "K1", plugins |-> <<>>]

\* line 173: permissions.find(p => p.perm_name === authority)
Find(list, authority) ==
    IF \E i \in 1 .. Len(list) : list[i].perm_name = authority
    THEN list[CHOOSE i \in 1 .. Len(list) :
                 /\ list[i].perm_name = authority
                 /\ \A j \in 1 .. i - 1 : list[j].perm_name # authority]
    ELSE NoPerm

\* line 174: the test before the second early return; it looks at
\* `permissions` again, not at `perm`
PermNotFound(present, perm) == ~present

\* faulty variant of AccStrs: the pairs of every permission of the account
AccStrsOfAll(perm) ==
    LET all == UNION {{sIn.list[n].accounts[i] : i \in 1 .. Len(sIn.list[n].accounts)} :
                          n \in 1 .. Len(sIn.list)}
    IN  CHOOSE q \in Arrays(Pairs) : {q[i] : i \in 1 .. Len(q)} = all

\* line 187: the pairs the authority delegates to, in the order of `accounts`
AccStrs(perm) == perm.accounts

\* line 193: signPlugin.validatorProvider[account] is defined
HasValidator(plugins, accStrs, at) == plugins[at[1]][accStrs[at[2]]] # "none"

\* lines 189-199: the loop counters in the order the loops visit them
Before(a, b) == a[1] < b[1] \/ (a[1] = b[1] /\ a[2] < b[2])

\* lines 189-199: the loops run on, from the counters `from`, to the next
\* validator there is; <<0, 0>> when both loops end without one
NextValidator(plugins, accStrs, from) ==
    LET cand == {at \in (1 .. Len(plugins)) \X (1 .. Len(accStrs)) :
                    /\ ~Before(at, from)
                    /\ HasValidator(plugins, accStrs, at)}
    IN  IF cand = {} THEN <<0, 0>>
        ELSE CHOOSE at \in cand : \A b \in cand : ~Before(b, at)

\* lines 161-168: the call up to its await of getAccountInfo
ValidateSign ==
    /\ sSt = "idle"
    /\ sSt' = "account"
    /\ UNCHANGED <<tvars, avars, mvars, sIn, sAt, sRet, ovars>>

\* lines 189-201: the loops from the counters `from` on: the next validator
\* is called and awaited, or the function ends without a value
RunLoops(from) ==
    LET at == NextValidator(sIn.plugins,
                            AccStrs(Find(sIn.list, sIn.authority)), from)
    IN  IF at = <<0, 0>>
        THEN sSt' = "returned" /\ sRet' = "undefined" /\ sAt' = at
        ELSE sSt' = "validating" /\ sAt' = at /\ UNCHANGED sRet

\* lines 168-199: getAccountInfo resolves
AccountInfo ==
    /\ sSt = "account"
    /\ LET perm == Find(sIn.list, sIn.authority)
       IN  IF ~sIn.present \/ PermNotFound(sIn.present, perm)
           THEN sSt' = "returned" /\ sRet' = "undefined" /\ UNCHANGED sAt
           ELSE IF perm = NoPerm
           THEN sSt' = "threw" /\ UNCHANGED <<sAt, sRet>>
           ELSE IF sIn.recoverKey \in perm.keys
           THEN sSt' = "returned" /\ sRet' = sIn.recoverKey /\ UNCHANGED sAt
           ELSE IF Len(sIn.plugins) <= 0
           THEN sSt' = "returned" /\ sRet' = "undefined" /\ UNCHANGED sAt
           ELSE RunLoops(<<1, 1>>)
    /\ UNCHANGED <<tvars, avars, mvars, sIn, ovars>>

\* line 168: getAccountInfo rejects; nothing catches it
AccountInfoFails ==
    /\ sSt = "account"
    /\ sSt' = "rejected"
    /\ UNCHANGED <<tvars, avars, mvars, sIn, sAt, sRet, ovars>>

\* lines 194-198: the validator awaited resolves
Validated ==
    /\ sSt = "validating"
    /\ LET accStrs == AccStrs(Find(sIn.list, sIn.authority))
       IN  IF sIn.plugins[sAt[1]][accStrs[sAt[2]]] = "yes"
           THEN sSt' = "returned" /\ sRet' = sIn.recoverKey /\ UNCHANGED sAt
           ELSE RunLoops(<<sAt[1], sAt[2] + 1>>)
    /\ UNCHANGED <<tvars, avars, mvars, sIn, ovars>>

\* ------------------------------------------------------------ specifications
\* ascending hint boundaries inside [l, u], at most MaxHints of them
HintSeqs(l, u) ==
    {h \in UNION {[1 .. n -> l .. u] : n \in 0 .. MaxHints} :
        \A i \in 1 .. Len(h) - 1 : h[i] <= h[i + 1]}


\* the log scans are not in use
NoLogScan ==
    /\ logLen = 0
    /\ shortReads = FALSE
    /\ bArgs = [startPos |-> 0, count |-> 1, concurrent |-> 1, cbReceive |-> FALSE]
    /\ bPhase = "off"
    /\ bI = 0
    /\ win = <<>>
    /\ delivered = <<>>
    /\ bRet = "none"
    /\ results = <<>>
    /\ sent = <<>>
    /\ answered = EmptyBag
    /\ faults = 0
    /\ lastFault = "none"

\* waitTx is not in use
NoWaitTx ==
    /\ wIn = 0
    /\ wSt = "off"
    /\ wRound = 0
    /\ wLog = <<>>
    /\ wRet = "none"

\* getTableByScope is not in use
NoScopeCall ==
    /\ gIn = [scopes |-> 0, lower_bound |-> 0, limit |-> 0]
    /\ gSt = "off"
    /\ gRet = <<>>

\* no TranscalPayload is in use
NoPayload ==
    /\ pIn = [func |-> <<>>, args |-> <<>>]
    /\ pSt = "off"
    /\ pMemo = <<>>
    /\ pOut = [error |-> FALSE, func |-> <<>>, args |-> <<>>]

\* the helpers that scan nothing are not in use
NoOtherCall ==
    /\ NoWaitTx
    /\ NoScopeCall
    /\ NoPayload

\* validateSign is not in use
NoSignCall ==
    /\ NoOtherCall
    /\ sIn = NoSign
    /\ sSt = "off"
    /\ sAt = <<0, 0>>
    /\ sRet = "undefined"

\* checkTableMore and checkTableRange are not in use
NoCursorCall ==
    /\ cArgs = NoQuery
    /\ pkPresent = TRUE
    /\ runs = <<>>
    /\ NoSignCall

\* no call has started yet
NoCallYet ==
    /\ NoLogScan
    /\ NoCursorCall
    /\ upperInclusive \in BOOLEAN
    /\ reqs = [c \in Calls |-> <<>>]
    /\ pool = [c \in Calls |-> <<>>]
    /\ ret = [c \in Calls |-> <<>>]
    /\ result = [c \in Calls |-> <<>>]
    /\ rejected = [c \in Calls |-> {}]
    /\ fails = 0

\* one call, any bounds, any hints
InitTable ==
    /\ NoCallYet
    /\ table \in SUBSET (0 .. MaxKey)
    /\ maxPageSize \in 1 .. MaxPage
    /\ \E ln \in 0 .. 1, un \in 0 .. KeyTop :
         \E h \in HintSeqs(LowerOf(ln), UpperOf(un)) :
            args = [c \in Calls |-> IF c = 1
                       THEN [lowerNum |-> ln, upperNum |-> un, hint |-> h,
                           upperIsString |-> FALSE]
                       ELSE NoArgs]
    /\ phase = [c \in Calls |-> IF c = 1 THEN "idle" ELSE "unused"]

NextTable ==
    \/ \E c \in Calls : GetTableAll(c)
    \/ \E c \in Calls : \E id \in 1 .. Len(reqs[c]) : Then(c, id)
    \/ \E c \in Calls : \E id \in 1 .. Len(reqs[c]) : Catch(c, id)
    \/ \E c \in Calls : Return(c)

SpecTable == InitTable /\ [][NextTable]_vars

\* one call without hints, over any table and range
InitNoHint ==
    /\ NoCallYet
    /\ table \in SUBSET (0 .. MaxKey)
    /\ maxPageSize \in 1 .. MaxPage
    /\ \E ln \in 0 .. 1, un \in 0 .. KeyTop :
            args = [c \in Calls |-> IF c = 1
                       THEN [lowerNum |-> ln, upperNum |-> un, hint |-> <<>>,
                           upperIsString |-> FALSE]
                       ELSE NoArgs]
    /\ phase = [c \in Calls |-> IF c = 1 THEN "idle" ELSE "unused"]

\* ... in which every remote query settles and the poll of lines 548-550 runs
\* again as long as the call has not returned
SpecTableFair == InitNoHint /\ [][NextTable]_vars /\ WF_vars(NextTable)

\* one call without an upper bound, in the forms 0 (as a missing argument is
\* falsy too), -1 and "-1", with any hints
InitNoUpper ==
    /\ NoCallYet
    /\ table \in SUBSET (0 .. MaxKey)
    /\ maxPageSize \in 1 .. MaxPage
    /\ \E ln \in 0 .. 1, un \in {0, -1}, str \in BOOLEAN :
         \E h \in HintSeqs(LowerOf(ln), KeyTop) :
            /\ str => un = -1
            /\ args = [c \in Calls |-> IF c = 1
                          THEN [lowerNum |-> ln, upperNum |-> un, hint |-> h,
                                upperIsString |-> str]
                          ELSE NoArgs]
    /\ phase = [c \in Calls |-> IF c = 1 THEN "idle" ELSE "unused"]

SpecNoUpper == InitNoUpper /\ [][NextTable]_vars

\* two calls on the same table, neither awaited before the other is made: the
\* first over any bounds, the second over the whole table
InitMeanwhile ==
    /\ NoCallYet
    /\ table \in SUBSET (0 .. MaxKey)
    /\ maxPageSize \in 1 .. MaxPage
    /\ \E ln \in 0 .. 1, un \in 0 .. KeyTop :
          args = [c \in Calls |-> IF c = 1
                     THEN [lowerNum |-> ln, upperNum |-> un, hint |-> <<>>,
                           upperIsString |-> FALSE]
                     ELSE [lowerNum |-> 0, upperNum |-> -1, hint |-> <<>>,
                           upperIsString |-> FALSE]]
    /\ phase = [c \in Calls |-> "idle"]

NextMeanwhile ==
    \/ \E c \in Calls : GetTableAllMeanwhile(c)
    \/ \E c \in Calls : \E id \in 1 .. Len(reqs[c]) : Then(c, id)
    \/ \E c \in Calls : \E id \in 1 .. Len(reqs[c]) : Catch(c, id)
    \/ \E c \in Calls : Return(c)

SpecMeanwhile == InitMeanwhile /\ [][NextMeanwhile]_vars

\* two calls over the same bounds of the same table, one after the other: the
\* first with hints, the second without
InitHints ==
    /\ NoCallYet
    /\ table \in SUBSET (0 .. MaxKey)
    /\ maxPageSize \in 1 .. MaxPage
    /\ \E ln \in 0 .. 1, un \in 0 .. KeyTop :
         \E h \in HintSeqs(LowerOf(ln), UpperOf(un)) :
            /\ Len(h) > 0
            /\ args = [c \in Calls |-> IF c = 1
                       THEN [lowerNum |-> ln, upperNum |-> un, hint |-> h,
                           upperIsString |-> FALSE]
                       ELSE [lowerNum |-> ln, upperNum |-> un, hint |-> <<>>,
                           upperIsString |-> FALSE]]
    /\ phase = [c \in Calls |-> "idle"]

SpecHints == InitHints /\ [][NextTable]_vars

\* the scenario of spec section 8: keys 0..9, pages of at most 4 rows, one call
\* getTableAll(.., 0, 10) without hints
InitTen ==
    /\ NoCallYet
    /\ table = 0 .. 9
    /\ maxPageSize = 4
    /\ args = [c \in Calls |-> IF c = 1
                  THEN [lowerNum |-> 0, upperNum |-> 10, hint |-> <<>>,
                           upperIsString |-> FALSE]
                  ELSE NoArgs]
    /\ phase = [c \in Calls |-> IF c = 1 THEN "idle" ELSE "unused"]

SpecTen == InitTen /\ [][NextTable]_vars

\* the table scans are not in use
NoTableScan ==
    /\ table = {}
    /\ maxPageSize = 1
    /\ upperInclusive = FALSE
    /\ args = [c \in Calls |-> NoArgs]
    /\ phase = [c \in Calls |-> "unused"]
    /\ reqs = [c \in Calls |-> <<>>]
    /\ pool = [c \in Calls |-> <<>>]
    /\ ret = [c \in Calls |-> <<>>]
    /\ result = [c \in Calls |-> <<>>]
    /\ rejected = [c \in Calls |-> {}]
    /\ fails = 0

\* no log scan has started yet
NoScanYet ==
    /\ NoTableScan
    /\ NoCursorCall
    /\ bI = 0
    /\ win = <<>>
    /\ delivered = <<>>
    /\ bRet = "none"
    /\ results = <<>>
    /\ sent = <<>>
    /\ answered = EmptyBag
    /\ faults = 0
    /\ lastFault = "none"

\* direct calls of getActions on a static log
InitGetActions ==
    /\ NoScanYet
    /\ logLen \in 0 .. MaxLog
    /\ shortReads \in BOOLEAN
    /\ bArgs = [startPos |-> 0, count |-> 1, concurrent |-> 1, cbReceive |-> FALSE]
    /\ bPhase = "off"

NextGetActions ==
    \/ \E p \in 0 .. MaxStart, off \in 0 .. MaxOffset : CallGetActions(p, off)
    \/ \E j \in 1 .. Len(win) : Reply(j)
    \/ \E j \in 1 .. Len(win) : Timeout(j)
    \/ \E j \in 1 .. Len(win) : Reject(j)
    \/ \E j \in 1 .. Len(win) : Malformed(j)

SpecGetActions == InitGetActions /\ [][NextGetActions]_vars

NextAdjacent ==
    \/ CallAdjacent
    \/ \E j \in 1 .. Len(win) : Reply(j)
    \/ \E j \in 1 .. Len(win) : Timeout(j)
    \/ \E j \in 1 .. Len(win) : Reject(j)
    \/ \E j \in 1 .. Len(win) : Malformed(j)

\* two calls over adjacent windows and one call over both, on a static log
SpecAdjacent == InitGetActions /\ [][NextAdjacent]_vars

\* one call of getAllActionsBatch
InitBatch ==
    /\ NoScanYet
    /\ logLen \in 0 .. MaxLog
    /\ shortReads \in BOOLEAN
    /\ bArgs \in [startPos : 0 .. MaxStart, count : 1 .. MaxCount,
                   concurrent : 1 .. MaxConc, cbReceive : BOOLEAN]
    /\ bPhase = "idle"

NextBatch ==
    \/ GetAllActionsBatch
    \/ \E j \in 1 .. Len(win) : Reply(j)
    \/ \E j \in 1 .. Len(win) : Timeout(j)
    \/ \E j \in 1 .. Len(win) : Reject(j)
    \/ \E j \in 1 .. Len(win) : Malformed(j)
    \/ BatchSettled

\* ... on a static log
SpecBatch == InitBatch /\ [][NextBatch]_vars

\* one call of getAllActionsBatch with a callback, on a node that answers with
\* all it has
InitBatchCallback ==
    /\ NoScanYet
    /\ logLen \in 0 .. MaxLog
    /\ shortReads = FALSE
    /\ bArgs \in [startPos : 0 .. MaxStart, count : 1 .. MaxCount,
                   concurrent : 1 .. MaxConc, cbReceive : {TRUE}]
    /\ bPhase = "idle"

\* ... in which every request is answered in the end and the continuations of
\* the call run
SpecBatchFair ==
    /\ InitBatchCallback /\ [][NextBatch]_vars
    /\ WF_vars(GetAllActionsBatch)
    /\ WF_vars(\E j \in 1 .. Len(win) : Reply(j))
    /\ WF_vars(BatchSettled)

\* ... on a log that grows during the scan
SpecBatchGrow == InitBatch /\ [][NextBatch \/ Grow]_vars

\* the scenario of spec section 8: 25 entries, pages of 10, 2 at a time, a node
\* that answers with all it has
InitLog25 ==
    /\ NoScanYet
    /\ logLen = 25
    /\ shortReads = FALSE
    /\ bArgs = [startPos |-> 0, count |-> 10, concurrent |-> 2, cbReceive |-> TRUE]
    /\ bPhase = "idle"

SpecLog25 == InitLog25 /\ [][NextBatch]_vars

\* getTableAll and the log scans are not in use
NoOtherScan ==
    /\ NoLogScan
    /\ NoSignCall
    /\ args = [c \in Calls |-> NoArgs]
    /\ phase = [c \in Calls |-> "unused"]
    /\ reqs = [c \in Calls |-> <<>>]
    /\ pool = [c \in Calls |-> <<>>]
    /\ ret = [c \in Calls |-> <<>>]
    /\ result = [c \in Calls |-> <<>>]
    /\ rejected = [c \in Calls |-> {}]
    /\ fails = 0

\* calls of checkTableMore with the same arguments on a static table
InitMore ==
    /\ NoOtherScan
    /\ table \in SUBSET (0 .. MaxKey)
    /\ maxPageSize \in 1 .. MaxPage
    /\ upperInclusive \in BOOLEAN
    /\ pkPresent \in BOOLEAN
    /\ cArgs \in [fn : {"checkTableMore"}, limit : -1 .. MaxLimit,
                   lower : 0 .. 1, upper : -1 .. KeyTop]
    /\ runs = <<>>

NextMore ==
    \/ CheckTableMore
    \/ TableReply
    \/ GetAbiSettled
    \/ QueryFails

SpecMore == InitMore /\ [][NextMore]_vars

\* the scenario of spec section 8: twenty rows with consecutive keys, pages of
\* at most 5 rows, checkTableMore with limit 7 and the default bounds
InitTwenty ==
    /\ NoOtherScan
    /\ \E k \in 0 .. MaxFirstKey : table = k .. k + 19
    /\ maxPageSize = 5
    /\ upperInclusive \in BOOLEAN
    /\ pkPresent = TRUE
    /\ cArgs = [fn |-> "checkTableMore", limit |-> 7, lower |-> 0, upper |-> -1]
    /\ runs = <<>>

SpecTwenty == InitTwenty /\ [][NextMore]_vars

\* calls of checkTableRange(from, length) on a static table
InitRange ==
    /\ NoOtherScan
    /\ table \in SUBSET (0 .. MaxKey)
    /\ maxPageSize \in 1 .. MaxPage
    /\ upperInclusive \in BOOLEAN
    /\ pkPresent = TRUE
    /\ cArgs \in [fn : {"checkTableRange"}, limit : -1 .. MaxLimit,
                   lower : 0 .. MaxKey, upper : {-1}]
    /\ runs = <<>>

NextRange ==
    \/ CheckTableRange
    \/ TableReply
    \/ QueryFails

SpecRange == InitRange /\ [][NextRange]_vars

\* one call of validateSign for an account with any permissions
InitSign ==
    /\ NoOtherCall
    /\ NoTableScan
    /\ NoLogScan
    /\ cArgs = NoQuery
    /\ pkPresent = TRUE
    /\ runs = <<>>
    /\ \E present \in BOOLEAN, list \in Arrays(Permission),
          authority \in PermNames, key \in Keys,
          plugins \in UNION {[1 .. n -> Providers] : n \in 0 .. MaxPlugins} :
          /\ \A i, j \in 1 .. Len(list) : i < j => list[i].perm_name # list[j].perm_name
          /\ ~present => list = <<>>
          /\ sIn = [present |-> present, list |-> list, authority |-> authority,
                    recoverKey |-> key, plugins |-> plugins]
    /\ sSt = "idle"
    /\ sAt = <<0, 0>>
    /\ sRet = "undefined"

NextSign ==
    \/ ValidateSign
    \/ AccountInfo
    \/ AccountInfoFails
    \/ Validated

SpecSign == InitSign /\ [][NextSign]_vars

\* --------------------------------------------------------------------- waitTx
\* how one call of getTransaction ends: with a transaction, with a falsy value,
\* or with an error
TxOutcomes == {"tx", "falsy", "throws"}

\* lines 430-431 and 446: waitTx calls checkTx(txID), round = 0, which calls
\* getTransaction
WaitTx ==
    /\ wSt = "idle"
    /\ wSt' = "asking"
    /\ wRound' = 0
    /\ UNCHANGED <<tvars, avars, mvars, svars, gvars, pvars, wIn, wLog, wRet>>

\* faulty variant of RoundOut: one round more
RoundOutLate(round, maxRound) == round > maxRound

\* line 438
RoundOut(round, maxRound) == round >= maxRound

\* lines 432-442: getTransaction settles; a transaction is returned, an error
\* is caught and logged, and without a transaction the rounds are counted
GetTransactionSettled(out) ==
    /\ wSt = "asking"
    /\ wLog' = Append(wLog, out)
    /\ IF out = "tx"
       THEN wSt' = "returned" /\ wRet' = "tx"
       ELSE IF RoundOut(wRound, wIn)
            THEN wSt' = "returned" /\ wRet' = "null"
            ELSE wSt' = "sleeping" /\ UNCHANGED wRet
    /\ UNCHANGED <<tvars, avars, mvars, svars, gvars, pvars, wIn, wRound>>

\* lines 442-443: forMs(timeSpanMS) is over; checkTx(_txID, round + 1)
ForMsOver ==
    /\ wSt = "sleeping"
    /\ wSt' = "asking"
    /\ wRound' = wRound + 1
    /\ UNCHANGED <<tvars, avars, mvars, svars, gvars, pvars, wIn, wLog, wRet>>

\* one call of waitTx with maxRound rounds
InitWaitTx ==
    /\ NoTableScan
    /\ NoLogScan
    /\ cArgs = NoQuery
    /\ pkPresent = TRUE
    /\ runs = <<>>
    /\ sIn = NoSign
    /\ sSt = "off"
    /\ sAt = <<0, 0>>
    /\ sRet = "undefined"
    /\ NoScopeCall
    /\ NoPayload
    /\ wIn \in 0 .. MaxRound
    /\ wSt = "idle"
    /\ wRound = 0
    /\ wLog = <<>>
    /\ wRet = "none"

NextWaitTx ==
    \/ WaitTx
    \/ \E out \in TxOutcomes : GetTransactionSettled(out)
    \/ ForMsOver

SpecWaitTx == InitWaitTx /\ [][NextWaitTx]_vars

\* ------------------------------------------------------------ getTableByScope
\* the value of `more` in a reply that holds the last scopes: the empty string
NoMore == -1

\* The reply of /v1/chain/get_table_by_scope for a table with the scopes
\* 0..scopes-1: the first `limit` scopes from lower_bound on, and in `more`
\* the scope to go on from, or the empty string
GetTableByScopeReply(scopes, lower_bound, limit) ==
    LET last == IF lower_bound + limit - 1 < scopes - 1
                THEN lower_bound + limit - 1 ELSE scopes - 1
    IN  [rows |-> [i \in 1 .. (IF last < lower_bound THEN 0
                                ELSE last - lower_bound + 1) |->
                      lower_bound + i - 1],
         more |-> IF last < scopes - 1 THEN last + 1 ELSE NoMore]

\* lines 728-754: the call up to its first await; `params` is built once
GetTableByScope ==
    /\ gSt = "idle"
    /\ gSt' = "asking"
    /\ UNCHANGED <<tvars, avars, mvars, svars, wvars, pvars, gIn, gRet>>

\* lines 753-759: the parameters of the request of the next turn of the loop;
\* nothing assigns to `params`
NextParams(params, data) == params

\* lines 754-758: the node answers; the page is pushed and the loop ends when
\* `more` is the empty string, else it posts the next request
ScopeReply ==
    /\ gSt = "asking"
    /\ Len(gRet) < MaxScopePages
    /\ LET data == GetTableByScopeReply(gIn.scopes, gIn.lower_bound, gIn.limit)
       IN  /\ gRet' = Append(gRet, data)
           /\ IF data.more = NoMore
              THEN gSt' = "returned" /\ UNCHANGED gIn
              ELSE /\ gIn' = NextParams(gIn, data)
                   /\ UNCHANGED gSt
    /\ UNCHANGED <<tvars, avars, mvars, svars, wvars, pvars>>

\* line 754: the post rejects; nothing catches it
ScopePostFails ==
    /\ gSt = "asking"
    /\ gSt' = "threw"
    /\ UNCHANGED <<tvars, avars, mvars, svars, wvars, pvars, gIn, gRet>>

\* one call of getTableByScope on a table with any number of scopes
InitScope ==
    /\ NoTableScan
    /\ NoLogScan
    /\ cArgs = NoQuery
    /\ pkPresent = TRUE
    /\ runs = <<>>
    /\ sIn = NoSign
    /\ sSt = "off"
    /\ sAt = <<0, 0>>
    /\ sRet = "undefined"
    /\ NoWaitTx
    /\ NoPayload
    /\ gIn \in [scopes : 0 .. MaxScopes, lower_bound : 0 .. 1,
                 limit : 1 .. MaxScopes + 1]
    /\ gSt = "idle"
    /\ gRet = <<>>

NextScope ==
    \/ GetTableByScope
    \/ ScopeReply
    \/ ScopePostFails

SpecScope == InitScope /\ [][NextScope]_vars

\* ------------------------------------------------------------ TranscalPayload
\* A string is the sequence of its characters.  The characters the memo format
\* gives a meaning to, and one that it does not
Chars == {"a", ":", ",", "]"}

\* the strings of at most n characters
Strings(n) == UNION {[1 .. k -> Chars] : k \in 0 .. n}

\* String.prototype.indexOf(ch, from): 0-based, -1 when absent
IndexOf(str, ch, from) ==
    IF \E i \in from + 1 .. Len(str) : str[i] = ch
    THEN (CHOOSE i \in from + 1 .. Len(str) :
             str[i] = ch /\ \A j \in from + 1 .. i - 1 : str[j] # ch) - 1
    ELSE -1

\* String.prototype.substr(start, length) for start >= 0: a length below 1
\* gives the empty string
Substr(str, start, length) ==
    LET end == IF start + length > Len(str) THEN Len(str) ELSE start + length
    IN  IF length <= 0 \/ start >= Len(str) THEN <<>>
        ELSE [i \in 1 .. end - start |-> str[start + i]]

\* Array.prototype.join(','): the empty array gives the empty string
RECURSIVE Join(_)
Join(list) ==
    IF list = <<>> THEN <<>>
    ELSE IF Len(list) = 1 THEN list[1]
    ELSE list[1] \o <<",">> \o Join(Tail(list))

\* line 57: memo ()
MemoOf(func, list) == <<"@", "[">> \o func \o <<":">> \o Join(list) \o <<"]">>

\* lines 81-92: the loop that cuts the arguments at the commas before posEnd
RECURSIVE ArgsLoop(_, _, _, _, _)
ArgsLoop(memo, from, posPrev, posEnd, list) ==
    LET pos == IndexOf(memo, ",", from)
    IN  IF pos >= posEnd \/ pos < 0
        THEN Append(list, Substr(memo, posPrev, posEnd - posPrev))
        ELSE ArgsLoop(memo, pos + 1, pos + 1, posEnd,
                      Append(list, Substr(memo, posPrev, pos - posPrev)))

ParseError == [error |-> TRUE, func |-> <<>>, args |-> <<>>]

\* lines 63-95 and 97-99: parseMemo (memo) on a new payload
ParseMemo(memo) ==
    LET posCol == IndexOf(memo, ":", 0)
        posEnd == IndexOf(memo, "]", 0)
    IN  IF Len(memo) < 4 THEN ParseError
        ELSE IF memo[2] # "[" \/ memo[3] = "]" THEN ParseError
        ELSE IF memo[1] # "@" /\ memo[1] # "#" THEN ParseError
        ELSE IF posEnd < 0 THEN ParseError
        ELSE IF posCol < 0
             THEN [error |-> FALSE, func |-> Substr(memo, 2, posEnd - 2),
                   args |-> <<>>]
             ELSE [error |-> FALSE, func |-> Substr(memo, 2, posCol - 2),
                   args |-> ArgsLoop(memo, posCol + 1, posCol + 1, posEnd, <<>>)]

\* lines 56-58: p.memo()
Memo ==
    /\ pSt = "idle"
    /\ pMemo' = MemoOf(pIn.func, pIn.args)
    /\ pSt' = "memo"
    /\ UNCHANGED <<tvars, avars, mvars, svars, wvars, gvars, pIn, pOut>>

\* lines 97-99: TranscalPayload.parse(memo)
Parse ==
    /\ pSt = "memo"
    /\ pOut' = ParseMemo(pMemo)
    /\ pSt' = "parsed"
    /\ UNCHANGED <<tvars, avars, mvars, svars, wvars, gvars, pIn, pMemo>>

\* lines 47-50: a payload new TranscalPayload(func, ...args) of strings
InitPayload ==
    /\ NoTableScan
    /\ NoLogScan
    /\ cArgs = NoQuery
    /\ pkPresent = TRUE
    /\ runs = <<>>
    /\ sIn = NoSign
    /\ sSt = "off"
    /\ sAt = <<0, 0>>
    /\ sRet = "undefined"
    /\ NoWaitTx
    /\ NoScopeCall
    /\ pIn \in [func : Strings(MaxFuncLen),
                 args : UNION {[1 .. n -> Strings(MaxArgLen)] : n \in 0 .. MaxArgs}]
    /\ pSt = "idle"
    /\ pMemo = <<>>
    /\ pOut = [error |-> FALSE, func |-> <<>>, args |-> <<>>]

NextPayload ==
    \/ Memo
    \/ Parse

SpecPayload == InitPayload /\ [][NextPayload]_vars

\* ------------------------------------------------------------------- claims
Lower(c) == LowerOf(args[c].lowerNum)
Upper(c) == UpperOf(args[c].upperNum)
Returned(c) == phase[c] = "returned"
NoDuplicates(s) == \A i, j \in 1 .. Len(s) : i # j => s[i] # s[j]
Outstanding(c) == {id \in 1 .. Len(reqs[c]) : reqs[c][id].st = "pending"}

\* the rows of the requested range: a range with lower >= upper is empty (spec
\* section 3), any other holds what the node places between its bounds
RowsOfRange(l, u) == IF l >= u THEN {} ELSE InBounds(l, u)

\* C1: a getTableAll call none of whose sub-queries failed returns, as a set,
\* exactly the rows of the static table that the node places in the requested
\* range, for every page size and every placement of keys.
C1_ScanReturnsExactlyTheRange ==
    \A c \in Calls :
        Returned(c) /\ rejected[c] = {} =>
            Range(result[c]) = RowsOfRange(Lower(c), Upper(c))

\* C2: a getTableAll call one of whose sub-queries failed never returns a row
\* list.
C2_NoReturnAfterSubQueryError ==
    \A c \in Calls : Returned(c) => rejected[c] = {}

\* C3: the list getTableAll returns holds each row of the static table at most
\* once, with or without hints.
C3_NoRowTwice ==
    \A c \in Calls : Returned(c) => NoDuplicates(result[c])

\* C4: over the same table, bounds and page size, the call with hints and the
\* call without hints return the same set of rows.
C4_HintsSameSet ==
    (\A c \in Calls : Returned(c) /\ rejected[c] = {}) =>
        Range(result[1]) = Range(result[2])

\* C5: with keys 0..9 and pages of at most 4 rows, getTableAll(0, 10) without
\* hints returns all 10 keys, each exactly once.
C5_TenKeysEachOnce ==
    Returned(1) /\ rejected[1] = {} =>
        /\ Range(result[1]) = 0 .. 9
        /\ Len(result[1]) = 10

\* C6: when getTableAll returns, none of the sub-queries it issued (initial,
\* seeded from a hint or spawned by a bisection) is still outstanding.
C6_NothingOutstandingAtReturn ==
    \A c \in Calls : Returned(c) => Outstanding(c) = {}

\* C6 witness: a call returned after a bisection and after one of its
\* sub-queries failed while another was still outstanding
C6_Witness ==
    /\ Returned(1)
    /\ Len(reqs[1]) >= 3
    /\ rejected[1] # {}
    /\ \E id \in 1 .. Len(reqs[1]) : reqs[1][id].st = "done" /\ id \notin rejected[1]

IsShort(page) == Len(page.rows) < bArgs.count

\* C7: the pages passed to the callback have strictly increasing start
\* positions, within a batch and across batches, and a page with fewer than
\* count rows is the last one: the scan has ended with it, no batch follows.
C7_AscendingPagesEndAtShort ==
    /\ \A m, n \in 1 .. Len(delivered) :
          m < n => delivered[m].pos < delivered[n].pos
    /\ \A n \in 1 .. Len(delivered) :
          IsShort(delivered[n]) =>
              /\ n = Len(delivered)
              /\ bPhase = "done"
              /\ \A j \in 1 .. Len(win) : win[j].st # "running"

\* C7 witness: pages of two batches were passed on, the last of them short,
\* while a later window of the last batch had fetched rows of the grown log
C7_Witness ==
    /\ bArgs.concurrent >= 2
    /\ Len(delivered) >= 2
    /\ IsShort(delivered[Len(delivered)])
    /\ \E k \in 1 .. Len(results) :
          /\ Len(results[k]) > 0
          /\ \A n \in 1 .. Len(sent) : sent[n] < k

\* C8: within a batch a page is passed to the callback only if every window
\* submitted before it in the batch returned at least count rows; a short or an
\* empty window before it suppresses it.
C8_OnlyAfterFullWindows ==
    \A n \in 1 .. Len(sent) :
        \A k \in 1 .. sent[n] - 1 : Len(results[k]) >= bArgs.count

\* the requests the node answered that asked for position p
RECURSIVE AskedIn(_, _)
AskedIn(S, p) ==
    IF S = {} THEN 0
    ELSE LET r == CHOOSE x \in S : TRUE
         IN  (IF r.pos <= p /\ p <= r.pos + r.offset THEN CopiesIn(r, answered) ELSE 0)
             + AskedIn(S \ {r}, p)

Asked(p) == AskedIn(BagToSet(answered), p)

\* C9: with the entries 0..24, count 10 and concurrent 2 from position 0, and no
\* remote call failing, the scan passes on three pages of 10, 10 and 5 rows and
\* ends, and no position beyond 24 was asked of the node twice.
C9_ThreePagesNothingAskedTwice ==
    bPhase = "done" /\ faults = 0 =>
        /\ [n \in 1 .. Len(delivered) |-> Len(delivered[n].rows)] = <<10, 10, 5>>
        /\ \A p \in 25 .. 40 : Asked(p) <= 1

\* the entries of the log with sequence number in lo..hi, ascending
Entries(lo, hi) ==
    LET last == IF hi < logLen - 1 THEN hi ELSE logLen - 1
    IN  [i \in 1 .. (IF last < lo THEN 0 ELSE last - lo + 1) |-> lo + i - 1]

\* C10: on a static contiguous log getActions(startPos, offset) returns exactly
\* the entries with sequence number in startPos..startPos+offset that exist,
\* each once and ascending, however short the reads of the node are.
C10_WindowExact ==
    \A j \in 1 .. Len(win) :
        win[j].st = "returned" =>
            win[j].actions = Entries(win[j].start, win[j].endPos)

\* C10 witness: a window returned that was put together from three reads or
\* more, one of them a retry, and that the log ends in
C10_Witness ==
    \E j \in 1 .. Len(win) :
        /\ win[j].st = "returned"
        /\ Len(win[j].actions) >= 3
        /\ win[j].endPos > logLen - 1
        /\ BagCardinality(answered) >= 4
        /\ faults > 0
        /\ Len(win) = 1
\* C11: on a static log, the rows of getActions(p, c) followed by the rows of
\* getActions(p + c + 1, c2) are the rows of getActions(p, c + c2 + 1)
C11_AdjacentWindowsConcatenate ==
    (Len(win) = 3 /\ \A j \in 1 .. 3 : win[j].st = "returned") =>
        win[1].actions \o win[2].actions = win[3].actions

\* the three calls returned, the first two with rows, the log ending inside
\* the second window
C11_Witness ==
    /\ Len(win) = 3
    /\ \A j \in 1 .. 3 : win[j].st = "returned"
    /\ win[1].actions # <<>>
    /\ win[2].actions # <<>>
    /\ win[3].endPos > logLen - 1
    /\ win[3].start > 0

\* C12: a timeout of a request leaves the activation as it was: still running,
\* with the same pos and endPos (so the same request goes out again) and the
\* same rows, and nothing is raised to the caller; this at every timeout,
\* however many came before
C12_TimeoutRepeatsTheRequest ==
    [][(faults' = faults + 1 /\ lastFault' = "timeout") =>
          /\ win' = win
          /\ \A j \in 1 .. Len(win') : win'[j].st = "threw" => win[j].st = "threw"
          /\ answered' = answered]_vars

\* a second timeout in a row hit a call that already holds rows and still runs
C12_Witness ==
    /\ faults >= 2
    /\ lastFault = "timeout"
    /\ Len(win) = 1
    /\ win[1].st = "running"
    /\ win[1].actions # <<>>
    /\ win[1].pos > win[1].start

\* C13: a remote call that rejects for another reason than the timeout is not
\* retried by the loop of getActions: the activation ends with the error
C13_RejectionLeavesAsError ==
    [][(faults' = faults + 1 /\ lastFault' = "rejected") =>
          \E j \in 1 .. Len(win) :
             win[j].st = "running" /\ win'[j].st = "threw"]_vars

\* C14: no window of a batch ends with an error; a window that is started
\* again keeps its start position and offset; the pages passed on are those of
\* consecutive start positions, each with exactly its entries of the log
C14_FailedWindowRequestedAgain ==
    /\ \A j \in 1 .. Len(win) :
          /\ win[j].st # "threw"
          /\ win[j].start = bArgs.startPos + (bI - Len(win) + j) * bArgs.count
          /\ win[j].endPos = win[j].start + bArgs.count - 1
    /\ \A n \in 1 .. Len(delivered) :
          /\ delivered[n].pos = bArgs.startPos + (n - 1) * bArgs.count
          /\ delivered[n].rows =
                Entries(delivered[n].pos, delivered[n].pos + bArgs.count - 1)

\* a scan that passed on two pages or more although getActions threw
C14_Witness ==
    /\ bPhase = "done"
    /\ lastFault = "malformed"
    /\ Len(delivered) >= 2
    /\ Len(delivered[1].rows) >= 2

\* the keys of the rows the caller asked for, and these rows in key order
RowsAsked == InRange(cArgs.lower, cArgs.upper)
AllAsked == FirstN(RowsAsked, Cardinality(RowsAsked))

\* the call failed on a page the node had answered
FailedOnPage(r) ==
    /\ r.st \in {"abi", "threw"}
    /\ r.frames # <<>>
    /\ r.frames[Len(r.frames)].got

\* the call sent the query it had sent just before: on a static table the
\* answer is the same again, and so is the next query, without end
Stalled(r) ==
    \E i \in 1 .. Len(r.frames) - 1 :
       /\ r.frames[i + 1].lower = r.frames[i].lower
       /\ r.frames[i + 1].limit = r.frames[i].limit

\* C15: with a limit above the number of rows in the bounds, checkTableMore
\* returns these rows, each once and in key order, whatever the page size of
\* the node: it neither fails on an answered page nor stalls
C15_EveryRowOnceInOrder ==
    \A n \in 1 .. Len(runs) :
       (pkPresent /\ cArgs.limit > Cardinality(RowsAsked)) =>
          /\ ~FailedOnPage(runs[n])
          /\ ~Stalled(runs[n])
          /\ runs[n].st = "returned" => runs[n].rows = AllAsked

\* C16: twenty rows, pages of at most 5, limit 7: the call does not fail on a
\* page and returns 7 rows, no two of them with the same key
C16_SevenRowsNoKeyTwice ==
    \A n \in 1 .. Len(runs) :
       /\ ~FailedOnPage(runs[n])
       /\ runs[n].st = "returned" =>
             Len(runs[n].rows) = 7 /\ NoDuplicates(runs[n].rows)

\* C17: checkTableMore ends on every static table, limit and page size: no
\* continuation repeats the query before it, every one is past the cursor
C17_ContinuationsAdvance ==
    \A n \in 1 .. Len(runs) : pkPresent => ~Stalled(runs[n])

\* the node answered every query the call sent
Answered(r) == r.frames # <<>> /\ r.frames[Len(r.frames)].got

C19_MissingKeyRaised ==
    \A n \in 1 .. Len(runs) : \A i \in 1 .. Len(runs[n].frames) :
       LET f == runs[n].frames[i]
       IN  (f.got /\ Truncated(f) /\ f.rows # <<>> /\ ~pkPresent) =>
              /\ i = Len(runs[n].frames)
              /\ runs[n].st \in {"abi", "threw"}
              /\ runs[n].rows = <<>>

\* the error was raised on a cut first page of two rows without the field
C19_Witness ==
    /\ ~pkPresent
    /\ runs # <<>>
    /\ runs[1].st = "threw"
    /\ Answered(runs[1])
    /\ Len(runs[1].frames) = 1
    /\ Len(runs[1].frames[1].rows) = 2
    /\ runs[1].frames[1].more

\* C20: checkTableRange(from, length) returns every row with a key among the
\* `length` keys from `from` on, also when the node reports `more`
C20_RangeNotTruncated ==
    \A n \in 1 .. Len(runs) :
       (runs[n].st = "returned" /\ cArgs.limit >= 0) =>
          {k \in table : cArgs.lower <= k /\ k < cArgs.lower + cArgs.limit}
             \subseteq Range(runs[n].rows)

\* C21: checkTableRange with a negative length ends with the range error and
\* has sent no query; with a length of 0 or more it sends exactly one query
C21_RangeErrorBeforeAnyQuery ==
    \A n \in 1 .. Len(runs) :
       runs[n].fn = "checkTable" =>
          IF cArgs.limit < 0
          THEN runs[n].st = "threw" /\ runs[n].frames = <<>>
          ELSE Len(runs[n].frames) = 1

\* a call with length -1 has failed, and was made again with the same end
C21_Witness ==
    /\ cArgs.fn = "checkTableRange"
    /\ cArgs.limit < 0
    /\ Len(runs) = 2
    /\ \A n \in 1 .. 2 : runs[n].st = "threw" /\ runs[n].frames = <<>>

\* the permission asked for, whether the recovered key is one of its keys, and
\* whether a plugin holds an accepting validator for a pair it delegates to
AskedPerm == Find(sIn.list, sIn.authority)
DirectKey == sIn.present /\ AskedPerm # NoPerm /\ sIn.recoverKey \in AskedPerm.keys
Accepting ==
    /\ sIn.present
    /\ AskedPerm # NoPerm
    /\ \E n \in 1 .. Len(sIn.plugins), i \in 1 .. Len(AskedPerm.accounts) :
          sIn.plugins[n][AskedPerm.accounts[i]] = "yes"

\* C22: validateSign resolves with a key only when the recovered key is a key
\* of the authority asked for, or a plugin's validator registered under a pair
\* this authority delegates to accepted; the key is the recovered key
C22_KeyOnlyWhenAuthorized ==
    (sSt = "returned" /\ sRet # "undefined") =>
        /\ sRet = sIn.recoverKey
        /\ DirectKey \/ Accepting

\* the key was returned on the second pair of the authority, after the
\* validator of the first had refused, while the account's other permission
\* delegates to nothing
C22_Witness ==
    /\ sSt = "returned"
    /\ sRet = sIn.recoverKey
    /\ ~DirectKey
    /\ sAt = <<1, 2>>
    /\ sIn.plugins[1][AskedPerm.accounts[1]] = "no"
    /\ Len(sIn.list) = 2

\* C23: without authorization validateSign resolves with nothing and raises
\* no error: the key is not among the authority's keys and no validator
\* accepts, or there is no permission list, or no permission of that name
C23_NothingAndNoError ==
    (/\ sSt \in {"returned", "threw"}
     /\ \/ ~sIn.present
        \/ AskedPerm = NoPerm
        \/ ~DirectKey /\ ~Accepting)
       => sSt = "returned" /\ sRet = "undefined"

\* the bag of the elements of a sequence
BagOf(s) == [x \in Range(s) |-> Cardinality({i \in 1 .. Len(s) : s[i] = x})]

\* the rows of the first id sub-queries of call c that were answered in full
RECURSIVE OwnRows(_, _)
OwnRows(c, id) ==
    IF id = 0 THEN EmptyBag
    ELSE LET r   == reqs[c][id]
             res == GetTableRows(r.l, r.u)
         IN  OwnRows(c, id - 1) (+)
                (IF r.st = "done" /\ ~res.more THEN BagOf(res.rows) ELSE EmptyBag)

\* C24: of two calls in progress at once each keeps its own pool and its own
\* rows: the pool of a call holds as many entries as the call has sub-queries
\* outstanding, a call returns when its own sub-queries have settled, whatever
\* the other has outstanding, and with the rows of its own sub-queries only
C24_CallsShareNothing ==
    \A c \in Calls :
       /\ Len(pool[c]) = Cardinality(Outstanding(c))
       /\ Returned(c) =>
             /\ Outstanding(c) = {}
             /\ BagOf(result[c]) = OwnRows(c, Len(reqs[c]))

\* the first call has returned rows while the second, which holds rows
\* already, has sub-queries outstanding
C24_Witness ==
    /\ Returned(1)
    /\ result[1] # <<>>
    /\ phase[2] = "polling"
    /\ Outstanding(2) # {}
    /\ ret[2] # <<>>
    /\ BagOf(ret[2]) # BagOf(result[1])

\* C25: the pool of a call holds exactly the sub-queries issued and not yet
\* settled, each once: a settling sub-query, fulfilled or rejected, takes out
\* its own entry and no other
C25_PoolIsTheOutstanding ==
    \A c \in Calls :
       /\ Range(pool[c]) = Outstanding(c)
       /\ NoDuplicates(pool[c])

\* sub-query id of call c is answered in this step, with a cut page
Bisected(c, id) ==
    /\ id \in 1 .. Len(reqs[c])
    /\ reqs[c][id].st = "pending"
    /\ reqs'[c][id].st = "done"
    /\ GetTableRows(reqs[c][id].l, reqs[c][id].u).more

\* the bounds of the sub-queries call c issues in this step, in order of issue
NewRanges(c) ==
    [i \in 1 .. Len(reqs'[c]) - Len(reqs[c]) |->
        <<reqs'[c][Len(reqs[c]) + i].l, reqs'[c][Len(reqs[c]) + i].u>>]

\* the halves of [l, u] at mid that are not empty, the lower one first
Halves(l, u, mid) ==
    (IF l < mid - 1 THEN <<(<<l, mid - 1>>)>> ELSE <<>>) \o
    (IF mid < u THEN <<(<<mid, u>>)>> ELSE <<>>)

\* C26: a cut page for [l, u] is followed by the sub-queries [l, mid-1] and
\* [mid, u] with mid = l + floor((u - l) / 2), for odd and even widths
C26_BisectAtFloor ==
    [][\A c \in Calls : \A id \in 1 .. Len(reqs[c]) :
          Bisected(c, id) =>
             NewRanges(c) = Halves(reqs[c][id].l, reqs[c][id].u,
                                   reqs[c][id].l +
                                      ((reqs[c][id].u - reqs[c][id].l) \div 2))]_vars

\* C26 as amended: mid is l plus half of u - l rounded half up, that is
\* l + floor((u - l + 1) / 2); the sub-ranges required are [l, mid-1] and
\* [mid, u], and each that is not empty is queried
C26_BisectAtHalfUp ==
    [][\A c \in Calls : \A id \in 1 .. Len(reqs[c]) :
          Bisected(c, id) =>
             NewRanges(c) = Halves(reqs[c][id].l, reqs[c][id].u,
                                   reqs[c][id].l +
                                      ((reqs[c][id].u - reqs[c][id].l + 1) \div 2))]_vars

\* a range of odd width was bisected and both its halves were queried
C26_Witness ==
    \E c \in Calls : \E id, j, k \in 1 .. Len(reqs[c]) :
       LET l == reqs[c][id].l
           u == reqs[c][id].u
       IN  /\ reqs[c][id].st = "done"
           /\ GetTableRows(l, u).more
           /\ (u - l) % 2 = 1
           /\ reqs[c][j].l = l /\ reqs[c][j].u = l + ((u - l + 1) \div 2) - 1
           /\ reqs[c][k].l = l + ((u - l + 1) \div 2) /\ reqs[c][k].u = u
           /\ id < j /\ j < k

\* C27: a call without an upper bound, in whatever form, scans up to the
\* maximum key: no sub-query has the upper bound -1 and one sub-query reaches
\* the maximum key
C27_NoUpperIsTheMaximum ==
    \A c \in Calls :
       phase[c] \in {"polling", "returned"} =>
          /\ \A id \in 1 .. Len(reqs[c]) : reqs[c][id].u # -1
          /\ \E id \in 1 .. Len(reqs[c]) : reqs[c][id].u = KeyTop

\* the pages of the first i queries of a chain put together: the first page
\* whole, every later page from its second row on
RECURSIVE Joined(_, _)
Joined(fs, i) ==
    IF i = 0 THEN <<>>
    ELSE Joined(fs, i - 1) \o
            (IF i = 1 THEN fs[1].rows ELSE SubSeq(fs[i].rows, 2, Len(fs[i].rows)))

\* C28: the query after a cut page of n rows has the key of the page's last
\* row as lower bound, limit - n + 1 as limit and the same upper bound; the
\* call returns the first page followed by every continuation without its
\* first row
C28_ContinuationQuery ==
    \A n \in 1 .. Len(runs) :
       /\ \A i \in 1 .. Len(runs[n].frames) - 1 :
             LET f == runs[n].frames[i]
                 g == runs[n].frames[i + 1]
             IN  /\ pkPresent
                 /\ f.got /\ f.more
                 /\ g.lower = f.rows[Len(f.rows)]
                 /\ g.limit = f.limit - Len(f.rows) + 1
                 /\ g.upper = f.upper
       /\ (runs[n].fn = "checkTableMore" /\ runs[n].st = "returned") =>
             runs[n].rows = Joined(runs[n].frames, Len(runs[n].frames))

\* a call returned after a continuation, the first page cut at two rows below
\* a positive limit, the continuation adding its second row
C28_Witness ==
    \E n \in 1 .. Len(runs) :
       /\ runs[n].st = "returned"
       /\ Len(runs[n].frames) = 2
       /\ runs[n].frames[1].limit > Len(runs[n].frames[1].rows)
       /\ Len(runs[n].frames[1].rows) = 2
       /\ Len(runs[n].frames[2].rows) = 2
       /\ Len(runs[n].rows) = 3

\* the node answers the running call in this step, with no rows
ZeroRows(j) ==
    /\ win[j].st = "running"
    /\ answered' # answered
    /\ win'[j].actions = win[j].actions

\* the running call gets a reply without the field `actions` in this step
NoRowsField(j) ==
    /\ win[j].st = "running"
    /\ faults' = faults + 1
    /\ lastFault' = "malformed"

\* C29: on a reply with zero rows, and on a reply without the rows field,
\* getActions stops and returns the rows it holds, without an error
C29_EmptyReplyReturns ==
    [][\A j \in 1 .. Len(win) :
          (ZeroRows(j) \/ NoRowsField(j)) =>
             win'[j].st = "returned" /\ win'[j].actions = win[j].actions]_vars

\* C29 as amended: on a reply with zero rows getActions stops and returns the
\* rows it holds, without an error; on a reply without the rows field it
\* ends with the error 'getActions failed' and returns nothing
C29_EmptyReturnsMalformedThrows ==
    [][\A j \in 1 .. Len(win) :
          /\ ZeroRows(j) =>
                win'[j].st = "returned" /\ win'[j].actions = win[j].actions
          /\ NoRowsField(j) => win'[j].st = "threw"]_vars

\* a call returned rows short of its window: its last reply had zero rows
C29_Witness ==
    /\ Len(win) = 1
    /\ win[1].st = "returned"
    /\ win[1].actions # <<>>
    /\ win[1].actions[Len(win[1].actions)] < win[1].endPos
    /\ win[1].pos > win[1].start

\* C30: a call that holds rows and goes on asks from the sequence number
\* after the last row it holds, which is above every row it holds; a call
\* whose last row has reached startPos + offset asks no more
C30_NextRequestAfterLastRow ==
    \A j \in 1 .. Len(win) :
       LET w == win[j]
       IN  w.actions # <<>> =>
              /\ w.st = "running" =>
                    /\ w.pos = w.actions[Len(w.actions)] + 1
                    /\ \A i \in 1 .. Len(w.actions) : w.actions[i] < w.pos
              /\ w.actions[Len(w.actions)] >= w.endPos => w.st = "returned"

\* a call goes on after two short replies
C30_Witness ==
    /\ Len(win) = 1
    /\ win[1].st = "running"
    /\ Len(win[1].actions) >= 2
    /\ Cardinality(DOMAIN answered) >= 2
    /\ win[1].pos <= win[1].endPos

\* C31: every batch in flight, the first included, has exactly `concurrent`
\* windows, at consecutive start positions one count apart from the position
\* after the batch before, each covering count positions
C31_BatchOfConcurrentWindows ==
    bPhase = "waiting" =>
        /\ Len(win) = bArgs.concurrent
        /\ \A j \in 1 .. Len(win) :
              /\ win[j].start =
                    bArgs.startPos + (bI - Len(win) + j) * bArgs.count
              /\ win[j].endPos - win[j].start + 1 = bArgs.count

\* the entries of the log in the window j of the batch in flight
Due(j) == Entries(win[j].start, win[j].start + bArgs.count - 1)

\* the windows of the batch in flight whose pages are to be passed on, as the
\* log and the arguments alone determine them: those that hold entries, up to
\* the first that holds fewer than count
DueIdx == {j \in 1 .. Len(win) :
              /\ Due(j) # <<>>
              /\ \A k \in 1 .. j - 1 : Len(Due(k)) >= bArgs.count}

\* the pages passed on in this step
Passed == SubSeq(delivered', Len(delivered) + 1, Len(delivered'))

\* C32: pages are passed to the callback only when every window of the batch
\* in flight has returned; the pages passed on are those the log determines,
\* in submission order, whatever the order the windows returned in; the next
\* batch is dispatched only in a step in which the pages of this one were
\* passed on
C32_DeliverAfterAllSettled ==
    [][/\ delivered' # delivered =>
             /\ \A j \in 1 .. Len(win) : win[j].st = "returned"
             /\ Len(Passed) = Cardinality(DueIdx)
             /\ \A n \in 1 .. Len(Passed) :
                   \E j \in DueIdx :
                      /\ Passed[n] = [pos |-> win[j].start, rows |-> Due(j)]
                      /\ Cardinality({k \in DueIdx : k <= j}) = n
       /\ (bPhase = "waiting" /\ bI' # bI) =>
             /\ delivered' # delivered
             /\ \A j \in 1 .. Len(win') : win'[j].actions = <<>>
             /\ \A j \in 1 .. Len(win) : win[j].st = "returned"]_vars

\* the second window of a later batch has returned with rows while the first
\* one is still running: nothing of the batch has been passed on
C32_Witness ==
    /\ bPhase = "waiting"
    /\ Len(win) >= 2
    /\ win[1].st = "running"
    /\ win[2].st = "returned"
    /\ win[2].actions # <<>>
    /\ delivered # <<>>
    /\ \A n \in 1 .. Len(delivered) : delivered[n].pos < win[1].start

\* C33: waitTx calls getTransaction at most maxRound + 1 times; no call follows
\* one that gave a transaction; a call that returned gave the transaction of
\* its last attempt, or null after maxRound + 1 attempts without one, also
\* when attempts ended with an error
C33_AtMostMaxRoundPlusOne ==
    /\ Len(wLog) <= wIn + 1
    /\ \A n \in 1 .. Len(wLog) - 1 : wLog[n] # "tx"
    /\ wSt = "asking" => Len(wLog) = wRound
    /\ wSt = "sleeping" => Len(wLog) = wRound + 1
    /\ wSt = "returned" =>
          IF wLog[Len(wLog)] = "tx" THEN wRet = "tx"
          ELSE wRet = "null" /\ Len(wLog) = wIn + 1

\* waitTx returned null after an error, a falsy reply and a last error
C33_Witness ==
    /\ wSt = "returned"
    /\ wRet = "null"
    /\ Len(wLog) >= 3
    /\ wLog[1] = "throws"
    /\ wLog[2] = "falsy"
    /\ wLog[Len(wLog)] = "throws"

\* C34: a sub-query issued on a cut page spans less than the sub-query that
\* was cut, and a call that every remote query of which settles returns
C34_EventuallyReturns ==
    /\ [][\A c \in Calls : \A id \in 1 .. Len(reqs[c]) :
            Bisected(c, id) =>
               \A n \in 1 .. Len(NewRanges(c)) :
                  /\ reqs[c][id].l <= NewRanges(c)[n][1]
                  /\ NewRanges(c)[n][2] <= reqs[c][id].u
                  /\ NewRanges(c)[n][2] - NewRanges(c)[n][1] <
                        reqs[c][id].u - reqs[c][id].l]_vars
    /\ \A c \in Calls : (phase[c] = "polling") ~> (phase[c] = "returned")

\* a call returned after pages were cut at two levels and four sub-queries
C34_Witness ==
    /\ phase[1] = "returned"
    /\ Len(reqs[1]) >= 4
    /\ \E i, j \in 1 .. Len(reqs[1]) :
          /\ reqs[1][i].u - reqs[1][i].l = KeyTop
          /\ reqs[1][j].u - reqs[1][j].l = 1

\* the rows of the pages n, n+1, ... passed to the callback, end to end
RECURSIVE RowsFrom(_)
RowsFrom(n) ==
    IF n > Len(delivered) THEN <<>> ELSE delivered[n].rows \o RowsFrom(n + 1)

\* C35: on a static log with the entries 0..N a scan from startPos <= N that
\* has ended has passed to the callback, end to end, exactly the entries
\* startPos..N, each once and in order
C35_AllEntriesOnce ==
    (bPhase = "done" /\ bArgs.cbReceive /\ bArgs.startPos <= logLen - 1) =>
        RowsFrom(1) = Entries(bArgs.startPos, logLen - 1)

\* a scan ended after three pages or more, the last one short, two windows at
\* a time, with requests that timed out on the way
C35_Witness ==
    /\ bPhase = "done"
    /\ bArgs.concurrent = 2
    /\ bArgs.count >= 2
    /\ Len(delivered) >= 3
    /\ IsShort(delivered[Len(delivered)])
    /\ lastFault = "timeout"

\* C36: on a static log a scan with a callback whose requests are all
\* answered in the end returns true; a request that times out, is rejected or
\* is answered without rows leaves its window running and the scan waiting
C36_EventuallyTrue ==
    /\ (bPhase = "idle" /\ bArgs.cbReceive) ~> (bPhase = "done" /\ bRet = "true")
    /\ [][faults' = faults + 1 =>
            /\ bPhase = "waiting" /\ bPhase' = "waiting"
            /\ \E j \in 1 .. Len(win) :
                  /\ win[j].st = "running" /\ win'[j].st = "running"
                  /\ win'[j].start = win[j].start
                  /\ win'[j].endPos = win[j].endPos
            /\ delivered' = delivered]_vars

\* a scan returned true after a malformed reply and three batches
C36_Witness ==
    /\ bPhase = "done"
    /\ bRet = "true"
    /\ lastFault = "malformed"
    /\ bArgs.concurrent = 1
    /\ bI >= 2

\* C37: checkTableMore raises the missing-key error only on rows that lack the
\* primary-key field; a cut page whose rows carry the field, be it with the
\* value 0, is continued
C37_RaisedOnlyWhenAbsent ==
    \A n \in 1 .. Len(runs) :
       (runs[n].fn = "checkTableMore" /\ runs[n].st = "abi") => ~pkPresent

\* C38: a checkTableMore call with limit > 0 that returned holds at most
\* `limit` rows, however many queries it chained
C38_AtMostLimitRows ==
    \A n \in 1 .. Len(runs) :
       (runs[n].fn = "checkTableMore" /\ runs[n].st = "returned"
           /\ cArgs.limit > 0) =>
          Len(runs[n].rows) <= cArgs.limit

\* a call returned exactly `limit` rows, three or more, from two queries
C38_Witness ==
    /\ cArgs.limit >= 3
    /\ runs # <<>>
    /\ runs[1].fn = "checkTableMore"
    /\ runs[1].st = "returned"
    /\ Len(runs[1].frames) >= 2
    /\ Len(runs[1].rows) = cArgs.limit

\* C39: getTableByScope holds each page of scopes once (no two pages it has
\* received are the same, each goes on after the one before), and the call
\* returns once the scopes are exhausted
C39_EachPageOnce ==
    /\ \A i, j \in 1 .. Len(gRet) : i < j => gRet[i] # gRet[j]
    /\ \A i \in 1 .. Len(gRet) - 1 :
          gRet[i + 1].rows # <<>> /\ gRet[i + 1].rows[1] = gRet[i].more

\* the string has none of the characters ':', ',' and ']'
Plain(str) == \A i \in 1 .. Len(str) : str[i] \notin {":", ",", "]"}

\* C40: for a payload with a non-empty func and a list of arguments, the empty
\* list included, all without ':', ',' and ']', parse(memo()) gives the func
\* and the arguments of the payload
C40_ParseOfMemo ==
    (/\ pSt = "parsed"
     /\ pIn.func # <<>>
     /\ Plain(pIn.func)
     /\ \A n \in 1 .. Len(pIn.args) : Plain(pIn.args[n])) =>
        /\ ~pOut.error
        /\ pOut.func = pIn.func
        /\ pOut.args = pIn.args

====
